---- MODULE Spec2Model ----
(***************************************************************************)
(* The TypingArea component of src/components/typing-area.tsx as a state   *)
(* machine: the key handler (handleKeyDown), the paste handler, the        *)
(* sampler (calculateAndUpdateStats) and the two effects that invoke it    *)
(* (the periodic sampling effect and the completion effect).               *)
(*                                                                         *)
(* Text is a sequence of one-character strings.  An action is one event    *)
(* of the host (a keydown, a paste, a change of the timeLeft prop, one     *)
(* firing of the 100 ms interval) together with the re-render it causes    *)
(* and the effects React re-runs because one of their dependencies         *)
(* changed.  The props currentText and cursorPosition are owned by the     *)
(* parent: onType(t) and setCursorPosition(p) are taken to store t and p,  *)
(* which the component receives back on the next render.                   *)
(***************************************************************************)
EXTENDS Integers, Sequences, FiniteSets, TLC

VARIABLES
    snippet,           \* snippet.code, the target text (prop, never changed)
    timeLeft,          \* prop: seconds left, owned by the parent
    currentText,       \* prop: the typed buffer
    cursorPosition,    \* prop: index into currentText
    hasStartedTyping,  \* useState(false), line 30
    errorCount,        \* useState(0), line 31
    lastSampleTime,    \* useRef(0), line 33
    now,               \* the host clock read by Date.now(), in ms
    isComplete,        \* the store: setComplete has been called
    calls,             \* the store calls made by the last action, in order
    event,             \* the event the last action handled
    lastCalcAt,        \* clock of the latest sampler invocation, 0 if none
    lastPeriodicAt     \* clock of the latest periodic one, 0 if none

vars == <<snippet, timeLeft, currentText, cursorPosition, hasStartedTyping,
          errorCount, lastSampleTime, now, isComplete, calls, event,
          lastCalcAt, lastPeriodicAt>>

----------------------------------------------------------------------------
(* Program constants *)

SAMPLE_INTERVAL == 1000

POLL_INTERVAL == 100

TOTAL_BUDGET == 30

(* Date.now() when the component mounts.  Any value >= SAMPLE_INTERVAL     *)
(* behaves like the real clock: lastSampleTime starts at 0, so the first   *)
(* throttle test always passes.                                            *)
MountTime == 1000

(* Bounds of the model *)

(* The source fixes MAX_LINE_LENGTH = 60 (line 34).  The handler reads it  *)
(* only in the comparison of line 174, so the model scales it down to let  *)
(* soft wraps happen inside short buffers.                                 *)
MAX_LINE_LENGTH == 3

MaxLen == 5

(* longest buffer the key handler is started on, as a function *)
MaxInputLen == 3

MaxErrors == 2

MaxElapsed == 1

MaxPolls == 10

(* most keys typed before the sampler is started on a buffer, as a function *)
MaxKeys == 4

NL == "\n"

Undefined == "undefined"

Chars == {"a", "b"}

Snippets == { <<>>, <<"a", "b">>, <<"a", "b", NL, "a">>, <<"a", NL, "b">> }

(* The parent owns the time budget; the component assumes 30 s *)
InitTimeLeft == {TOTAL_BUDGET, TOTAL_BUDGET + 1}

KeyEvent(k, m, c) == [key |-> k, metaKey |-> m, ctrlKey |-> c]

KeyEvents ==
    {KeyEvent(k, FALSE, FALSE) : k \in Chars \cup {"Backspace", "Enter"}}
    \cup {KeyEvent("a", FALSE, TRUE), KeyEvent("b", TRUE, FALSE)}

----------------------------------------------------------------------------
(* JavaScript helpers *)

Min(a, b) == IF a < b THEN a ELSE b

Max(a, b) == IF a > b THEN a ELSE b

(* String.prototype.slice index normalisation *)
sliceIndex(i, n) == IF i < 0 THEN Max(n + i, 0) ELSE Min(i, n)

(* s.slice(from, to), 0-based, to exclusive *)
slice(s, from, to) ==
    LET f == sliceIndex(from, Len(s))
        t == sliceIndex(to, Len(s))
    IN  IF f >= t THEN <<>> ELSE SubSeq(s, f + 1, t)

(* s.slice(from) *)
sliceFrom(s, from) == slice(s, from, Len(s))

(* s.split('\n'): the maximal newline-free pieces, in order *)
RECURSIVE split(_)
split(s) ==
    IF \A i \in 1..Len(s) : s[i] # NL
    THEN <<s>>
    ELSE LET i == CHOOSE j \in 1..Len(s) :
                      s[j] = NL /\ \A k \in 1..(j - 1) : s[k] # NL
         IN  <<SubSeq(s, 1, i - 1)>> \o split(SubSeq(s, i + 1, Len(s)))

(* s[i] with a 0-based index; out of range reads undefined *)
charAt(s, i) == IF i >= 0 /\ i < Len(s) THEN s[i + 1] ELSE Undefined

(* e.key.length *)
keyLength(k) == Len(k)

----------------------------------------------------------------------------
(* The store (useTypingStore).  fx is what an action has done to it so     *)
(* far: the calls made, in order and with their arguments, and whether     *)
(* setComplete has been called.                                            *)

Call(fn, args) == [fn |-> fn, args |-> args]

addWPMSample(fx, wpm, raw, errors) ==
    [fx EXCEPT !.calls = Append(@, Call("addWPMSample", <<wpm, raw, errors>>))]

updateAccuracy(fx, accuracy) ==
    [fx EXCEPT !.calls = Append(@, Call("updateAccuracy", <<accuracy>>))]

updateCharacters(fx, counts) ==
    [fx EXCEPT !.calls = Append(@, Call("updateCharacters", <<counts>>))]

setComplete(fx, elapsedTime) ==
    [fx EXCEPT !.calls = Append(@, Call("setComplete", <<elapsedTime>>)),
               !.isComplete = TRUE]

----------------------------------------------------------------------------
(* calculateAndUpdateStats, lines 58-81 *)

(* Math.round(q) for the quotient q = n / d, d # 0: floor(q + 1/2) *)
mathRound(n, d) ==
    IF d > 0 THEN (2 * n + d) \div (2 * d) ELSE (d - 2 * n) \div (2 * (0 - d))

(* The quotient (length / 5) / ((30 - timeLeft) / 60) is computed in IEEE   *)
(* doubles: length / 5 and (30 - timeLeft) / 60 are rounded before they    *)
(* are divided.  These are the pairs <<length, 30 - timeLeft>>, among      *)
(* lengths up to 12 and 1 to 40 seconds, whose exact quotient is k + 1/2   *)
(* and whose double quotient is below it: 0.6 / 0.4 is 1.4999999999999998  *)
(* and 1.4 / 0.4 is 3.4999999999999996.  For every other pair in that      *)
(* range Math.round of the double is Math.round of the exact quotient.     *)
quotientBelowHalf == {<<3, 24>>, <<7, 24>>}

(* Math.round((length / 5) / ((30 - timeLeft) / 60)); the exact quotient   *)
(* is length * 60 / (5 * (30 - timeLeft))                                  *)
wpmOf(length, tl) ==
    mathRound(length * 60, 5 * (TOTAL_BUDGET - tl))
        - (IF <<length, TOTAL_BUDGET - tl>> \in quotientBelowHalf THEN 1 ELSE 0)

(* currentText.split('').filter((char, i) => char === snippet.code[i]).length *)
correctCharsOf(text, code) ==
    Cardinality({i \in 0..(Len(text) - 1) : charAt(text, i) = charAt(code, i)})

(* Mutant: the accuracy without the test for an empty buffer *)
accuracyOfUnguarded(text, code, err) ==
    [num |-> correctCharsOf(text, code) * 100, den |-> Len(text) + err]

(* Mutant: the accuracy over the buffer alone, the errors forgotten *)
accuracyOfNoErrors(text, code, err) ==
    IF Len(text) > 0
    THEN [num |-> correctCharsOf(text, code) * 100, den |-> Len(text)]
    ELSE [num |-> 0, den |-> 1]

(* totalChars > 0 ? (correctChars / (totalChars + errorCount)) * 100 : 0,  *)
(* kept as the fraction num / den                                          *)
accuracyOf(text, code, err) ==
    IF Len(text) > 0
    THEN [num |-> correctCharsOf(text, code) * 100, den |-> Len(text) + err]
    ELSE [num |-> 0, den |-> 1]

(* Mutant: extra and missed without Math.max *)
charactersOfUnclamped(text, code) ==
    [ correct   |-> correctCharsOf(text, code),
      incorrect |-> Len(text) - correctCharsOf(text, code),
      extra     |-> Len(text) - Len(code),
      missed    |-> Len(code) - Len(text) ]

(* lines 74-79 *)
charactersOf(text, code) ==
    [ correct   |-> correctCharsOf(text, code),
      incorrect |-> Len(text) - correctCharsOf(text, code),
      extra     |-> Max(0, Len(text) - Len(code)),
      missed    |-> Max(0, Len(code) - Len(text)) ]

(* Mutant: the guard lets a negative elapsed time through *)
timeElapsedNonZero(tl) == TOTAL_BUDGET - tl # 0

(* timeElapsed > 0, where timeElapsed = (30 - timeLeft) / 60 *)
timeElapsedPositive(tl) == TOTAL_BUDGET - tl > 0

calculateAndUpdateStats(fx, tl, text, code, err) ==
    LET fx0 == [fx EXCEPT !.calls = Append(@, Call("calculateAndUpdateStats", <<>>))]
    IN  IF timeElapsedPositive(tl)
        THEN LET fx1 == addWPMSample(fx0, wpmOf(Len(text), tl),
                                     wpmOf(Len(text), tl), err)
                 fx2 == updateAccuracy(fx1, accuracyOf(text, code, err))
             IN  updateCharacters(fx2, charactersOf(text, code))
        ELSE fx0

----------------------------------------------------------------------------
(* The effects *)

(* now - lastSampleTime.current >= SAMPLE_INTERVAL *)
sampleDue(nowV, last) == nowV - last >= SAMPLE_INTERVAL

(* Mutant: the sample is taken but lastSampleTime.current is not set *)
sampleIfDueNoStamp(fx, last, nowV, tl, text, code, err) ==
    IF nowV - last >= SAMPLE_INTERVAL
    THEN [fx |-> calculateAndUpdateStats(fx, tl, text, code, err), last |-> last]
    ELSE [fx |-> fx, last |-> last]

(* Body of the periodic sampling effect, lines 84-91, and of the interval  *)
(* callback, lines 93-98: sample when due and remember when                *)
sampleIfDue(fx, last, nowV, tl, text, code, err) ==
    IF sampleDue(nowV, last)
    THEN [fx |-> calculateAndUpdateStats(fx, tl, text, code, err), last |-> nowV]
    ELSE [fx |-> fx, last |-> last]

samplingEffect(fx, last, started, nowV, tl, text, code, err) ==
    IF ~started
    THEN [fx |-> fx, last |-> last]
    ELSE sampleIfDue(fx, last, nowV, tl, text, code, err)

(* Mutant: the completion test compares the lengths only *)
textMatchesLength(text, code) == Len(text) = Len(code)

(* currentText === snippet.code *)
textMatches(text, code) == text = code

(* Mutant: completion is reported without the final sample *)
completionEffectNoSample(fx, tl, text, code, err) ==
    IF textMatches(text, code) THEN setComplete(fx, TOTAL_BUDGET - tl) ELSE fx

(* The completion effect, lines 105-111 *)
completionEffect(fx, tl, text, code, err) ==
    IF textMatches(text, code)
    THEN setComplete(calculateAndUpdateStats(fx, tl, text, code, err),
                     TOTAL_BUDGET - tl)
    ELSE fx

(* The effects React re-runs after a render, in the order the component    *)
(* declares them.  calcChanged: a dependency of calculateAndUpdateStats    *)
(* (timeLeft, currentText, snippet.code, errorCount) changed, which        *)
(* re-creates the callback both effects depend on; startChanged:           *)
(* hasStartedTyping changed.                                               *)
runEffects(fx, last, calcChanged, startChanged, started, nowV, tl, text, code, err) ==
    LET s == IF calcChanged \/ startChanged
             THEN samplingEffect(fx, last, started, nowV, tl, text, code, err)
             ELSE [fx |-> fx, last |-> last]
    IN  [ fx   |-> IF calcChanged
                   THEN completionEffect(s.fx, tl, text, code, err)
                   ELSE s.fx,
          last |-> s.last ]

----------------------------------------------------------------------------
(* handleKeyDown, lines 146-192 *)

(* Mutant: Backspace removes the character at the cursor, not before it *)
backspaceForward(text, cursor) ==
    IF cursor > 0
    THEN [ currentText    |-> slice(text, 0, cursor) \o sliceFrom(text, cursor + 1),
           cursorPosition |-> cursor - 1 ]
    ELSE [ currentText |-> text, cursorPosition |-> cursor ]

(* Mutant: Backspace without the cursorPosition > 0 test *)
backspaceUnguarded(text, cursor) ==
    [ currentText    |-> slice(text, 0, cursor - 1) \o sliceFrom(text, cursor),
      cursorPosition |-> cursor - 1 ]

(* lines 155-158: what Backspace passes to onType and setCursorPosition *)
backspace(text, cursor) ==
    IF cursor > 0
    THEN [ currentText    |-> slice(text, 0, cursor - 1) \o sliceFrom(text, cursor),
           cursorPosition |-> cursor - 1 ]
    ELSE [ currentText |-> text, cursorPosition |-> cursor ]

(* lines 170-172: the line that ends at the inserted character *)
currentLineOf(text, cursor, key) ==
    LET newText == slice(text, 0, cursor) \o <<key>> \o sliceFrom(text, cursor)
        lines   == split(slice(newText, 0, cursor + 1))
    IN  lines[Len(lines)]

(* Mutant: the line may grow to MAX_LINE_LENGTH + 1 before it is wrapped *)
lineTooLongStrict(text, cursor, key) ==
    Len(currentLineOf(text, cursor, key)) > MAX_LINE_LENGTH

(* line 174 *)
lineTooLong(text, cursor, key) ==
    Len(currentLineOf(text, cursor, key)) >= MAX_LINE_LENGTH

(* Mutant: the soft wrap forgets the newline it counted in the cursor *)
insertPrintableNoNewline(text, cursor, key) ==
    [ currentText    |-> slice(text, 0, cursor) \o <<key>> \o sliceFrom(text, cursor),
      cursorPosition |-> IF lineTooLong(text, cursor, key)
                         THEN cursor + 2 ELSE cursor + 1 ]

(* Mutant: the soft wrap moves the cursor past the newline only *)
insertPrintableOneStep(text, cursor, key) ==
    IF lineTooLong(text, cursor, key)
    THEN [ currentText    |-> slice(text, 0, cursor) \o <<NL>> \o <<key>>
                                \o sliceFrom(text, cursor),
           cursorPosition |-> cursor + 1 ]
    ELSE [ currentText    |-> slice(text, 0, cursor) \o <<key>>
                                \o sliceFrom(text, cursor),
           cursorPosition |-> cursor + 1 ]

(* lines 170-184: what a printable key passes to onType and setCursorPosition *)
insertPrintable(text, cursor, key) ==
    IF lineTooLong(text, cursor, key)
    THEN [ currentText    |-> slice(text, 0, cursor) \o <<NL>> \o <<key>>
                                \o sliceFrom(text, cursor),
           cursorPosition |-> cursor + 2 ]
    ELSE [ currentText    |-> slice(text, 0, cursor) \o <<key>>
                                \o sliceFrom(text, cursor),
           cursorPosition |-> cursor + 1 ]

(* Mutant: only the first wrong key is counted *)
checkErrorsOnce(err, key, code, cursor) ==
    IF err = 0 /\ key # charAt(code, cursor) THEN err + 1 ELSE err

(* Mutant: a key typed past the end of the target is not counted *)
checkErrorsInRange(err, key, code, cursor) ==
    IF cursor < Len(code) /\ key # charAt(code, cursor) THEN err + 1 ELSE err

(* lines 186-189 *)
checkErrors(err, key, code, cursor) ==
    IF key # charAt(code, cursor) THEN err + 1 ELSE err

(* line 163: the keys the handler ignores *)
notPrintable(e) == keyLength(e.key) # 1 \/ e.metaKey \/ e.ctrlKey

(* lines 148-150 *)
startTyping(started) == IF ~started THEN TRUE ELSE started

(* Mutant: Backspace takes back the error of the character it deletes *)
handleKeyDownUncount(e, text, cursor, started, err, code) ==
    IF e.key = "Backspace"
    THEN [ currentText      |-> backspace(text, cursor).currentText,
           cursorPosition   |-> backspace(text, cursor).cursorPosition,
           hasStartedTyping |-> startTyping(started),
           errorCount       |-> IF cursor > 0 /\ err > 0
                                   /\ charAt(text, cursor - 1) # charAt(code, cursor - 1)
                                THEN err - 1 ELSE err ]
    ELSE IF notPrintable(e)
    THEN [ currentText      |-> text,
           cursorPosition   |-> cursor,
           hasStartedTyping |-> startTyping(started),
           errorCount       |-> err ]
    ELSE [ currentText      |-> insertPrintable(text, cursor, e.key).currentText,
           cursorPosition   |-> insertPrintable(text, cursor, e.key).cursorPosition,
           hasStartedTyping |-> startTyping(started),
           errorCount       |-> checkErrors(err, e.key, code, cursor) ]

(* The component's state after the handler, given the state it closed over *)
handleKeyDown(e, text, cursor, started, err, code) ==
    IF e.key = "Backspace"
    THEN [ currentText      |-> backspace(text, cursor).currentText,
           cursorPosition   |-> backspace(text, cursor).cursorPosition,
           hasStartedTyping |-> startTyping(started),
           errorCount       |-> err ]
    ELSE IF notPrintable(e)
    THEN [ currentText      |-> text,
           cursorPosition   |-> cursor,
           hasStartedTyping |-> startTyping(started),
           errorCount       |-> err ]
    ELSE [ currentText      |-> insertPrintable(text, cursor, e.key).currentText,
           cursorPosition   |-> insertPrintable(text, cursor, e.key).cursorPosition,
           hasStartedTyping |-> startTyping(started),
           errorCount       |-> checkErrors(err, e.key, code, cursor) ]

----------------------------------------------------------------------------
(* Actions *)

NoCalls == [calls |-> <<>>, isComplete |-> isComplete]

(* What the calls of an action tell about the sampler: how often it was    *)
(* invoked, and whether the periodic effect or callback invoked it (the    *)
(* completion effect's invocation is the one setComplete follows)          *)
calcCount(cs) ==
    Cardinality({i \in 1..Len(cs) : cs[i].fn = "calculateAndUpdateStats"})

periodicSampled(cs) ==
    calcCount(cs) > (IF \E i \in 1..Len(cs) : cs[i].fn = "setComplete"
                     THEN 1 ELSE 0)

(* the clock of the latest invocation, after an action at clock t *)
stamp(prev, invoked, t) == IF invoked THEN t ELSE prev

(* Mount: the first render and its effects.  The sampling effect returns   *)
(* at once (hasStartedTyping is false); the completion effect runs.        *)
Init ==
    /\ snippet \in Snippets
    /\ timeLeft \in InitTimeLeft
    /\ currentText = <<>>
    /\ cursorPosition = 0
    /\ hasStartedTyping = FALSE
    /\ errorCount = 0
    /\ now = MountTime
    /\ \E r \in {runEffects([calls |-> <<>>, isComplete |-> FALSE], 0, TRUE, TRUE,
                            FALSE, MountTime, timeLeft, <<>>, snippet, 0)} :
           /\ isComplete = r.fx.isComplete
           /\ calls = r.fx.calls
           /\ lastSampleTime = r.last
           /\ lastCalcAt = stamp(0, calcCount(r.fx.calls) > 0, MountTime)
           /\ lastPeriodicAt = stamp(0, periodicSampled(r.fx.calls), MountTime)
    /\ event = [type |-> "mount"]

(* A keydown event on window, the re-render and the effects it causes *)
KeyDown(e) ==
    \E h \in {handleKeyDown(e, currentText, cursorPosition, hasStartedTyping,
                            errorCount, snippet)} :
    \E r \in {runEffects(NoCalls, lastSampleTime,
                         h.currentText # currentText \/ h.errorCount # errorCount,
                         h.hasStartedTyping # hasStartedTyping,
                         h.hasStartedTyping, now, timeLeft, h.currentText,
                         snippet, h.errorCount)} :
        /\ Len(h.currentText) <= MaxLen
        /\ h.errorCount <= MaxErrors
        /\ currentText' = h.currentText
        /\ cursorPosition' = h.cursorPosition
        /\ hasStartedTyping' = h.hasStartedTyping
        /\ errorCount' = h.errorCount
        /\ isComplete' = r.fx.isComplete
        /\ calls' = r.fx.calls
        /\ lastSampleTime' = r.last
        /\ event' = [type |-> "keydown", key |-> e.key, metaKey |-> e.metaKey,
                     ctrlKey |-> e.ctrlKey]
        /\ lastCalcAt' = stamp(lastCalcAt, calcCount(r.fx.calls) > 0, now)
        /\ lastPeriodicAt' = stamp(lastPeriodicAt, periodicSampled(r.fx.calls), now)
        /\ UNCHANGED <<snippet, timeLeft, now>>

(* onPaste, lines 317-320: preventDefault and stopPropagation only *)
Paste ==
    /\ event' = [type |-> "paste"]
    /\ calls' = <<>>
    /\ UNCHANGED <<snippet, timeLeft, currentText, cursorPosition,
                   hasStartedTyping, errorCount, lastSampleTime, now, isComplete,
                   lastCalcAt, lastPeriodicAt>>

(* The parent's timer lowers the timeLeft prop by one second *)
TimeLeftTick ==
    \E r \in {runEffects(NoCalls, lastSampleTime, TRUE, FALSE, hasStartedTyping,
                         now, timeLeft - 1, currentText, snippet, errorCount)} :
        /\ timeLeft > TOTAL_BUDGET - MaxElapsed
        /\ timeLeft' = timeLeft - 1
        /\ isComplete' = r.fx.isComplete
        /\ calls' = r.fx.calls
        /\ lastSampleTime' = r.last
        /\ event' = [type |-> "timeLeft"]
        /\ lastCalcAt' = stamp(lastCalcAt, calcCount(r.fx.calls) > 0, now)
        /\ lastPeriodicAt' = stamp(lastPeriodicAt, periodicSampled(r.fx.calls), now)
        /\ UNCHANGED <<snippet, currentText, cursorPosition, hasStartedTyping,
                       errorCount, now>>

(* The setInterval callback of lines 93-99 fires, POLL_INTERVAL ms later *)
IntervalCallback ==
    \E r \in {sampleIfDue(NoCalls, lastSampleTime, now + POLL_INTERVAL, timeLeft,
                          currentText, snippet, errorCount)} :
        /\ hasStartedTyping
        /\ now < MountTime + MaxPolls * POLL_INTERVAL
        /\ now' = now + POLL_INTERVAL
        /\ isComplete' = r.fx.isComplete
        /\ calls' = r.fx.calls
        /\ lastSampleTime' = r.last
        /\ event' = [type |-> "interval"]
        /\ lastCalcAt' = stamp(lastCalcAt, calcCount(r.fx.calls) > 0,
                               now + POLL_INTERVAL)
        /\ lastPeriodicAt' = stamp(lastPeriodicAt, periodicSampled(r.fx.calls),
                                   now + POLL_INTERVAL)
        /\ UNCHANGED <<snippet, timeLeft, currentText, cursorPosition,
                       hasStartedTyping, errorCount>>

Next ==
    \/ \E e \in KeyEvents : KeyDown(e)
    \/ Paste
    \/ TimeLeftTick
    \/ IntervalCallback

Spec == Init /\ [][Next]_vars

----------------------------------------------------------------------------
(* The key handler as a function of its inputs: the component is mounted   *)
(* on any buffer and any cursor inside it, and keys are applied.           *)

RECURSIVE TextsOfLen(_)
TextsOfLen(n) ==
    IF n = 0 THEN {<<>>}
    ELSE {Append(t, c) : t \in TextsOfLen(n - 1), c \in Chars \cup {NL}}

Texts == UNION {TextsOfLen(n) : n \in 0..MaxInputLen}

InitReducer ==
    /\ snippet \in Snippets
    /\ timeLeft = TOTAL_BUDGET
    /\ currentText \in Texts
    /\ cursorPosition \in 0..Len(currentText)
    /\ hasStartedTyping = FALSE
    /\ errorCount = 0
    /\ now = MountTime
    /\ \E r \in {runEffects([calls |-> <<>>, isComplete |-> FALSE], 0, TRUE, TRUE,
                            FALSE, MountTime, timeLeft, currentText, snippet, 0)} :
           /\ isComplete = r.fx.isComplete
           /\ calls = r.fx.calls
           /\ lastSampleTime = r.last
           /\ lastCalcAt = stamp(0, calcCount(r.fx.calls) > 0, MountTime)
           /\ lastPeriodicAt = stamp(0, periodicSampled(r.fx.calls), MountTime)
    /\ event = [type |-> "mount"]

NextReducer ==
    \/ \E e \in KeyEvents : KeyDown(e)
    \/ Paste

SpecReducer == InitReducer /\ [][NextReducer]_vars

----------------------------------------------------------------------------
(* The sampler as a function of its inputs: the session is under way, up   *)
(* to MaxKeys keys, letters and Backspace, have been typed from the empty  *)
(* buffer, the parent has brought timeLeft to any second of the budget,    *)
(* and the interval callback polls.                                        *)

StartState ==
    [ currentText |-> <<>>, cursorPosition |-> 0,
      hasStartedTyping |-> FALSE, errorCount |-> 0 ]

(* the states of buffer, cursor and errorCount after n keys *)
RECURSIVE TypedStates(_, _)
TypedStates(n, code) ==
    IF n = 0 THEN {StartState}
    ELSE {handleKeyDown(KeyEvent(k, FALSE, FALSE), s.currentText,
                        s.cursorPosition, s.hasStartedTyping, s.errorCount, code) :
              s \in TypedStates(n - 1, code), k \in Chars \cup {"Backspace"}}

InitSampler ==
    /\ snippet \in Snippets
    /\ timeLeft \in 0..(TOTAL_BUDGET + 1)
    /\ \E n \in 1..MaxKeys : \E s \in TypedStates(n, snippet) :
           /\ s.errorCount <= MaxErrors
           /\ currentText = s.currentText
           /\ cursorPosition = s.cursorPosition
           /\ hasStartedTyping = s.hasStartedTyping
           /\ errorCount = s.errorCount
    /\ isComplete = textMatches(currentText, snippet)
    /\ calls = <<>>
    /\ now = MountTime
    /\ lastSampleTime = MountTime
    /\ lastCalcAt = MountTime
    /\ lastPeriodicAt = MountTime
    /\ event = [type |-> "timeLeft"]

NextSampler == IntervalCallback

SpecSampler == InitSampler /\ [][NextSampler]_vars

----------------------------------------------------------------------------
(* Vocabulary of the properties *)

Called(fn) == \E i \in 1..Len(calls) : calls[i].fn = fn

StoreCalls == {"addWPMSample", "updateAccuracy", "updateCharacters"}

IsKey(ev) == ev.type = "keydown"

IsBackspace(ev) == IsKey(ev) /\ ev.key = "Backspace"

IsPrintable(ev) ==
    IsKey(ev) /\ ev.key \in Chars /\ ~ev.metaKey /\ ~ev.ctrlKey

(* a key that is not one character, or with Meta or Ctrl held, or a paste *)
IsRejected(ev) ==
    \/ ev.type = "paste"
    \/ IsKey(ev) /\ ev.key # "Backspace" /\ (ev.key \notin Chars \/ ev.metaKey \/ ev.ctrlKey)

(* the seconds the component takes to have elapsed *)
Elapsed == TOTAL_BUDGET - timeLeft

(* no line of t, a maximal run without newline, is longer than n *)
LinesWithin(t, n) ==
    \A i \in 1..Len(t) :
        (i + n <= Len(t)) => \E j \in i..(i + n) : t[j] = NL

(* length of the text between the last newline before index c and c *)
SinceNewline(t, c) ==
    IF \E j \in 1..c : t[j] = NL
    THEN c - (CHOOSE j \in 1..c : t[j] = NL /\ \A k \in (j + 1)..c : t[k] # NL)
    ELSE c

(* t has a newline at index i, counted from 0, exactly when               *)
(* i mod MAX_LINE_LENGTH = MAX_LINE_LENGTH - 1                             *)
WrapPattern(t) ==
    \A i \in 0..(Len(t) - 1) :
        (t[i + 1] = NL) <=> (i % MAX_LINE_LENGTH = MAX_LINE_LENGTH - 1)

----------------------------------------------------------------------------
(* C1: setComplete is called exactly for a buffer equal to the target: an  *)
(* action that calls it leaves currentText = snippet.code, every state     *)
(* whose buffer equals the target has had completion reported, and the     *)
(* action that makes the buffer equal to the target calls it.              *)
C1_CompletionIffMatch ==
    /\ [](Called("setComplete") => currentText = snippet)
    /\ [](currentText = snippet => isComplete)
    /\ [][(currentText' = snippet /\ currentText' # currentText)
              => Called("setComplete")']_vars

(* typing the whole of a non-empty target has just completed the session *)
C1_Witness ==
    /\ IsPrintable(event)
    /\ Len(snippet) > 0
    /\ currentText = snippet
    /\ Called("setComplete")

(* C2: Backspace at a cursor c > 0 removes exactly the character at index  *)
(* c - 1, keeps the others in order and moves the cursor back by one; at   *)
(* c = 0 it leaves buffer and cursor as they are.                          *)
C2_Backspace ==
    [][IsBackspace(event') =>
          IF cursorPosition > 0
          THEN /\ Len(currentText') = Len(currentText) - 1
               /\ cursorPosition' = cursorPosition - 1
               /\ \A i \in 1..Len(currentText') :
                      currentText'[i] =
                          currentText[IF i < cursorPosition THEN i ELSE i + 1]
          ELSE /\ currentText' = currentText
               /\ cursorPosition' = cursorPosition]_vars

(* a Backspace has deleted inside the buffer: characters remain on both sides *)
C2_Witness ==
    /\ IsBackspace(event)
    /\ cursorPosition > 0
    /\ cursorPosition < Len(currentText)

(* C3: no step lowers errorCount. *)
C3_ErrorCountMonotone == [][errorCount' >= errorCount]_vars

(* Backspace has emptied a buffer whose errors stay counted *)
C3_Witness ==
    /\ IsBackspace(event)
    /\ currentText = <<>>
    /\ errorCount > 0

(* C4: inserting a printable character into a buffer whose lines are all   *)
(* at most MAX_LINE_LENGTH long, at any cursor, leaves no line longer than *)
(* MAX_LINE_LENGTH.                                                        *)
C4_LineBound ==
    [][(IsPrintable(event') /\ LinesWithin(currentText, MAX_LINE_LENGTH))
           => LinesWithin(currentText', MAX_LINE_LENGTH)]_vars

(* C5: a printable key whose line (the text since the last newline before  *)
(* the cursor, plus the key) reaches MAX_LINE_LENGTH is inserted as a      *)
(* newline and the key, the cursor moving by 2; otherwise as the key       *)
(* alone, the cursor moving by 1.  The characters before and after the     *)
(* cursor are kept in order.                                               *)
C5_SoftWrapInsertion ==
    [][IsPrintable(event') =>
          LET c == cursorPosition
              d == IF SinceNewline(currentText, c) + 1 >= MAX_LINE_LENGTH
                   THEN 2 ELSE 1
          IN  /\ cursorPosition' = c + d
              /\ Len(currentText') = Len(currentText) + d
              /\ \A i \in 1..c : currentText'[i] = currentText[i]
              /\ \A i \in (c + 1)..Len(currentText) :
                     currentText'[i + d] = currentText[i]
              /\ currentText'[c + d] = event'.key
              /\ (d = 2 => currentText'[c + 1] = NL)]_vars

(* a key has just been inserted behind a newline that ends a full line,    *)
(* with text left after the cursor                                         *)
C5_Witness ==
    /\ IsPrintable(event)
    /\ cursorPosition = MAX_LINE_LENGTH + 1
    /\ cursorPosition < Len(currentText)
    /\ currentText[cursorPosition - 1] = NL
    /\ \A i \in 1..(MAX_LINE_LENGTH - 1) : currentText[i] # NL

(* C6: a printable key handled at cursor c adds one to errorCount when it  *)
(* differs from the target's character at index c (an index past the end   *)
(* of the target differs), and leaves errorCount alone when it equals it,  *)
(* whether or not a newline is injected before it.                         *)
C6_ErrorCounting ==
    [][IsPrintable(event') =>
          errorCount' =
              IF cursorPosition < Len(snippet)
                 /\ snippet[cursorPosition + 1] = event'.key
              THEN errorCount ELSE errorCount + 1]_vars

(* after a soft wrap the key sits at index c + 1 and was judged equal to   *)
(* the target's character at index c: no error was counted                 *)
C6_Witness ==
    /\ IsPrintable(event)
    /\ snippet = <<"a", NL, "b">>
    /\ currentText = <<"a", "a", NL, "b">>
    /\ cursorPosition = 4
    /\ event.key = "b"
    /\ errorCount = 0

(* C7: a rejected key and a paste change none of currentText,              *)
(* cursorPosition, errorCount and hasStartedTyping.                        *)
C7_RejectedChangesNothing ==
    [][IsRejected(event') =>
          UNCHANGED <<currentText, cursorPosition, errorCount,
                      hasStartedTyping>>]_vars

(* C8: the cursor is inside the buffer, 0 <= cursorPosition <= length.     *)
C8_CursorInBounds ==
    cursorPosition >= 0 /\ cursorPosition <= Len(currentText)

(* a soft wrap has just moved the cursor by 2 *)
C8_Witness ==
    /\ IsPrintable(event)
    /\ cursorPosition = MAX_LINE_LENGTH + 1
    /\ currentText[cursorPosition - 1] = NL

(* C9, as stated: whenever the buffer becomes equal to the target the     *)
(* final sample is stored (addWPMSample, updateAccuracy, updateCharacters) *)
(* and only then setComplete is called.                                    *)
C9_FinalSampleAlways ==
    [][(currentText' = snippet /\ currentText' # currentText) =>
          LET n == Len(calls')
          IN  /\ n >= 4
              /\ calls'[n].fn = "setComplete"
              /\ calls'[n - 3].fn = "addWPMSample"
              /\ calls'[n - 2].fn = "updateAccuracy"
              /\ calls'[n - 1].fn = "updateCharacters"]_vars

(* C9, amended: the action that makes the buffer equal to the target       *)
(* invokes the sampler and then, as its last call, setComplete with        *)
(* elapsed = 30 - timeLeft; the sampler stores the final sample before     *)
(* that call when elapsed > 0 and stores nothing when elapsed <= 0.        *)
C9_SamplerThenComplete ==
    /\ [](Called("setComplete") =>
            LET n == Len(calls)
            IN  /\ calls[n] = Call("setComplete", <<Elapsed>>)
                /\ \A i \in 1..(n - 1) : calls[i].fn # "setComplete"
                /\ n >= 2
                /\ IF Elapsed > 0
                   THEN /\ n >= 5
                        /\ calls[n - 4].fn = "calculateAndUpdateStats"
                        /\ calls[n - 3].fn = "addWPMSample"
                        /\ calls[n - 2].fn = "updateAccuracy"
                        /\ calls[n - 1].fn = "updateCharacters"
                   ELSE /\ calls[n - 1].fn = "calculateAndUpdateStats"
                        /\ \A i \in 1..n : calls[i].fn \notin StoreCalls)
    /\ [][(currentText' = snippet /\ currentText' # currentText)
              => Called("setComplete")']_vars

(* a key has completed the target after some time: the sample was stored   *)
C9_Witness ==
    /\ IsPrintable(event)
    /\ currentText = snippet
    /\ Elapsed > 0
    /\ Called("setComplete")
    /\ Called("addWPMSample")

(* C10: with 30 - timeLeft <= 0 an invocation of the sampler makes none of *)
(* the calls addWPMSample, updateAccuracy, updateCharacters.               *)
C10_NoSampleAtNonPositiveElapsed ==
    Elapsed <= 0 => \A i \in 1..Len(calls) : calls[i].fn \notin StoreCalls

(* the completion effect has invoked the sampler at elapsed <= 0: nothing *)
(* was stored before setComplete                                           *)
C10_Witness ==
    /\ Elapsed <= 0
    /\ IsPrintable(event)
    /\ calls = <<Call("calculateAndUpdateStats", <<>>),
                 Call("setComplete", <<Elapsed>>)>>

(* the arguments of the calls to fn made by the last action *)
ArgsOf(fn) == {calls[i].args : i \in {j \in 1..Len(calls) : calls[j].fn = fn}}

(* the indices of the buffer that hold the target's character *)
CorrectIndices ==
    {i \in 1..Len(currentText) : i <= Len(snippet) /\ currentText[i] = snippet[i]}

(* C11: every accuracy the sampler reports is a quotient with a positive   *)
(* denominator whose value lies in [0, 100], and it is 0 for an empty      *)
(* buffer.                                                                 *)
C11_AccuracyRange ==
    \A a \in ArgsOf("updateAccuracy") :
        /\ a[1].den > 0
        /\ a[1].num >= 0
        /\ a[1].num <= 100 * a[1].den
        /\ (currentText = <<>> => a[1].num = 0)

(* an accuracy was reported for a buffer longer than the target, errors    *)
(* counted                                                                 *)
C11_Witness ==
    /\ ArgsOf("updateAccuracy") # {}
    /\ Len(snippet) > 0
    /\ Len(currentText) > Len(snippet)
    /\ errorCount > 0

(* an accuracy of 0 was reported for the empty buffer *)
C11_EmptyBufferSampled ==
    /\ currentText = <<>>
    /\ ArgsOf("updateAccuracy") = {<<[num |-> 0, den |-> 1]>>}

(* C12: the character counts of every snapshot: correct counts the indices *)
(* inside buffer and target that agree, incorrect is the rest of the       *)
(* buffer, extra and missed are the differences of the lengths cut at 0.   *)
C12_CharacterCounts ==
    \A a \in ArgsOf("updateCharacters") :
        LET n == a[1]
        IN  /\ n.correct = Cardinality(CorrectIndices)
            /\ n.incorrect = Len(currentText) - n.correct
            /\ n.extra = IF Len(currentText) > Len(snippet)
                         THEN Len(currentText) - Len(snippet) ELSE 0
            /\ n.missed = IF Len(snippet) > Len(currentText)
                          THEN Len(snippet) - Len(currentText) ELSE 0
            /\ n.correct + n.incorrect = Len(currentText)
            /\ n.correct >= 0 /\ n.incorrect >= 0
            /\ n.extra >= 0 /\ n.missed >= 0
            /\ ~(n.extra > 0 /\ n.missed > 0)

(* a snapshot of a buffer that runs past the target and holds correct and  *)
(* incorrect characters                                                    *)
C12_Witness ==
    \E a \in ArgsOf("updateCharacters") :
        a[1].correct > 0 /\ a[1].incorrect > 0 /\ a[1].extra > 0

(* C13, as stated: any two consecutive invocations of the sampler, by the *)
(* periodic effect, the interval callback or the completion effect, are at *)
(* least SAMPLE_INTERVAL ms apart.                                         *)
C13_AllSamplesThrottled ==
    [][calcCount(calls') > 0 =>
          /\ calcCount(calls') = 1
          /\ (lastCalcAt # 0 => now' - lastCalcAt >= SAMPLE_INTERVAL)]_vars

(* C13, amended: the periodic effect and the interval callback invoke the  *)
(* sampler at most once per action and only when at least SAMPLE_INTERVAL  *)
(* ms have passed since the latest periodic invocation.                    *)
C13_PeriodicThrottled ==
    [][periodicSampled(calls') =>
          /\ calcCount(calls') <= (IF Called("setComplete")' THEN 2 ELSE 1)
          /\ (lastPeriodicAt # 0 => now' - lastPeriodicAt >= SAMPLE_INTERVAL)]_vars

(* the interval callback has taken a second periodic sample *)
C13_Witness ==
    /\ event.type = "interval"
    /\ periodicSampled(calls)
    /\ lastPeriodicAt = now
    /\ now >= MountTime + SAMPLE_INTERVAL

(* C14: once setComplete has been called, the periodic sampler no longer   *)
(* invokes the sampler and no further sample is appended to the store.     *)
C14_NoSampleAfterComplete ==
    [][isComplete =>
          (~periodicSampled(calls') /\ ~Called("addWPMSample")')]_vars

(* C15: setComplete is never called before a first keystroke has set       *)
(* hasStartedTyping.                                                       *)
C15_CompleteOnlyAfterStart == isComplete => hasStartedTyping

(* C16: while errorCount is positive, and it never decreases, every        *)
(* accuracy the sampler reports is strictly below 100, also when the       *)
(* buffer is a correct prefix of the target or the target itself.          *)
C16_MistakesLowerAccuracy ==
    errorCount > 0 =>
        \A a \in ArgsOf("updateAccuracy") : a[1].num < 100 * a[1].den

(* an accuracy was reported for the completed target after a mistake had   *)
(* been removed with Backspace and retyped                                 *)
C16_Witness ==
    /\ errorCount > 0
    /\ Len(snippet) > 0
    /\ currentText = snippet
    /\ \E a \in ArgsOf("updateAccuracy") : a[1].num > 0

(* C17: every appended sample is taken at a positive elapsed time, its wpm *)
(* is the quotient (length / 5) / (seconds / 60) = 12 * length / seconds   *)
(* rounded to the nearest integer with halves rounded up, its raw wpm is   *)
(* the same number and its errors field is errorCount.                     *)
C17_SampleContent ==
    \A a \in ArgsOf("addWPMSample") :
        /\ Elapsed > 0
        /\ (2 * a[1] - 1) * Elapsed <= 24 * Len(currentText)
        /\ 24 * Len(currentText) < (2 * a[1] + 1) * Elapsed
        /\ a[2] = a[1]
        /\ a[3] = errorCount

(* C18: every buffer reached from the empty buffer has its newlines at     *)
(* exactly the indices i with i mod MAX_LINE_LENGTH = MAX_LINE_LENGTH - 1, *)
(* so for a target that departs from that pattern setComplete is never     *)
(* called.                                                                 *)
C18_WrapPatternOnly ==
    /\ WrapPattern(currentText)
    /\ (~WrapPattern(snippet) => (currentText # snippet /\ ~isComplete))

(* a target with a newline off the pattern, a buffer as long as the target *)
(* that holds a soft-wrap newline, and no completion                       *)
C18_Witness ==
    /\ ~WrapPattern(snippet)
    /\ \E i \in 1..Len(snippet) : snippet[i] = NL
    /\ \E i \in 1..Len(currentText) : currentText[i] = NL
    /\ Len(currentText) >= Len(snippet)
    /\ ~isComplete

(* C19: the cursor is at the end of the buffer in every state reached from *)
(* the empty buffer, so a key is appended and Backspace removes the last   *)
(* character.                                                              *)
C19_CursorAtEnd == cursorPosition = Len(currentText)

(* Backspace has removed the last character of a buffer that had been      *)
(* soft-wrapped                                                            *)
C19_Witness ==
    /\ IsBackspace(event)
    /\ Len(currentText) >= MAX_LINE_LENGTH
    /\ cursorPosition = Len(currentText)

(* C20: in every state reached from the empty buffer whose buffer holds no *)
(* newline, the number of buffer indices that are past the target or hold  *)
(* another character than the target is at most errorCount.                *)
C20_ErrorCountBoundsIncorrect ==
    (\A i \in 1..Len(currentText) : currentText[i] # NL) =>
        Len(currentText) - Cardinality(CorrectIndices) <= errorCount

(* a buffer without newline that holds a wrong character, after an earlier *)
(* mistake was removed with Backspace                                      *)
C20_Witness ==
    /\ \A i \in 1..Len(currentText) : currentText[i] # NL
    /\ Len(currentText) - Cardinality(CorrectIndices) > 0
    /\ errorCount > Len(currentText) - Cardinality(CorrectIndices)

(* C20, the other half: a buffer with a soft-wrap newline holds more wrong *)
(* indices than errorCount counts                                          *)
C20_BoundBrokenAfterWrap ==
    /\ \E i \in 1..Len(currentText) : currentText[i] = NL
    /\ Len(currentText) - Cardinality(CorrectIndices) > errorCount

====
